---- MODULE Spec2Model ----
(***************************************************************************)
(* A model of the embermug service (service/service.go): the connectivity  *)
(* and event callbacks that maintain the State snapshot of one Ember mug,  *)
(* the client registry and dispatchState's fan-out, and the client tasks   *)
(* (handleClient for socket clients, notifierClient of cli/cmd/service.go).*)
(*                                                                         *)
(* Goroutines are interleaved at the statements that other goroutines can  *)
(* observe: lock acquisition, every write of s.state / s.mug, every        *)
(* channel operation and every registry change.                            *)
(***************************************************************************)
EXTENDS Integers, FiniteSets, Sequences, TLC

\* ---------------------------------------------------------------- bounds
\* Temperatures the device reports are drawn from 0..MaxTemp.
MaxTemp == 1
\* Battery charge levels the device reports are drawn from 0..MaxCharge.
MaxCharge == 1
\* Battery voltages the device reports are drawn from 0..MaxVoltage.
MaxVoltage == 1
\* Socket connections accepted over the life of the service (the notifier is
\* one more client).
MaxClients == 1
\* The channels of a Color are drawn from 0..MaxChannel.
MaxChannel == 3

\* ------------------------------------------------------- program constants
StateHeating == 5
StateStable == 6

EventRefreshBattery == 1
EventCharging == 2
EventNotCharging == 3
EventRefreshTarget == 4
EventRefreshTemperature == 5
EventNotImplemented == 6
EventRefreshLevel == 7
EventRefreshState == 8

Events == EventRefreshBattery..EventRefreshState

\* the attempts one connect() makes, and the connect() calls Run makes at start
MaxTries == 10
MaxConnects == 10

\* what bluetoothAdapter.Connect can return: a device ("ok") or an error
Errors == {"ETIMEDOUT", "EPIPE"}
TransportResults == {"ok"} \cup Errors

\* what a connect() called for a client message returns ("none": not called)
ConnectResults == {"none", "device"} \cup Errors

\* the Reconnect field of a JSON object a client sends
WireValues == {"true", "false", "absent"}

\* bluetooth addresses a connectivity callback can carry
deviceAddress == "target"
Addresses == {"target", "other"}

\* ------------------------------------------------------------ value domains
Temps == 0..MaxTemp
LiquidStates == {StateHeating, StateStable}
BatteryState == [Charge : 0..MaxCharge, Charging : BOOLEAN,
                 Temperature : Temps, Voltage : 0..MaxVoltage]

ZeroBattery == [Charge |-> 0, Charging |-> FALSE, Temperature |-> 0, Voltage |-> 0]

\* State{} of service.New
ZeroState == [Connected |-> FALSE, State |-> 0, Target |-> 0, Current |-> 0,
              Battery |-> ZeroBattery, HasLiquid |-> FALSE]

\* The five attributes of a full refresh, in the order handleConnectionEvent
\* reads them.
RefreshOrder == <<"State", "Current", "Target", "HasLiquid", "Battery">>
Attributes == {"State", "Current", "Target", "HasLiquid", "Battery"}

\* The Mug field (a characteristic) each getter reads.
Characteristic(attr) ==
    CASE attr = "State" -> "liquidState"
      [] attr = "Current" -> "currentTemp"
      [] attr = "Target" -> "targetTemp"
      [] attr = "HasLiquid" -> "liquidLevel"
      [] attr = "Battery" -> "batteryState"

AllCharacteristics == {"liquidState", "currentTemp", "targetTemp", "liquidLevel",
                       "batteryState", "events"}

Values(attr) ==
    CASE attr = "State" -> LiquidStates
      [] attr = "Current" -> Temps
      [] attr = "Target" -> Temps
      [] attr = "HasLiquid" -> BOOLEAN
      [] attr = "Battery" -> BatteryState

\* The attribute a refresh event re-reads ("" for the events that read nothing).
EventAttribute(event) ==
    CASE event = EventRefreshState -> "State"
      [] event = EventRefreshTemperature -> "Current"
      [] event = EventRefreshTarget -> "Target"
      [] event = EventRefreshLevel -> "HasLiquid"
      [] event = EventRefreshBattery -> "Battery"
      [] OTHER -> ""

ClientIds == 0..MaxClients
SocketIds == 1..MaxClients
IsNotifier(c) == c = 0

VARIABLES
    alive,       \* FALSE once a goroutine has panicked
    exposed,     \* characteristics the target device exposes (Mug's non-nil fields)
    run,         \* position of serviceEntrypoint / Service.Run
    ctxDone,     \* the parent context passed to Run is cancelled
    state,       \* Service.state
    mug,         \* Service.mug: "nil" or "mug"
    mugLock,     \* Service.mugLock: "free" or "held"
    subscribed,  \* handleEvent has been registered with an events characteristic
    h,           \* the callback that holds mugLock: its position and locals
    clientLock,  \* Service.clientLock: "free" or "held"
    registry,    \* keys of Service.clients
    closed,      \* clients whose Channel has been closed
    disp,        \* the dispatchState call in progress
    cl,          \* per client: task position, Cancel called, last snapshot obtained,
                 \* the reader's position and message, notification sent at the last receive
    stable,      \* history: snapshots s.state has held while no callback was updating it
    lastAddr,    \* history: the address of the latest connectivity callback
    conn,        \* Run's connection loop: its counter i and the locals of its connect() call
    log,         \* history: the results of the transport attempts of that connect() call
    iter,        \* one call of Mug.Events and the iteration over what it returns
    color        \* a Color, the bytes it was encoded to and the Color decoded from them

vars == <<alive, exposed, run, ctxDone, state, mug, mugLock, subscribed, h,
          clientLock, registry, closed, disp, cl, stable, lastAddr, conn, log,
          iter, color>>

svcVars == <<state, mug, mugLock, subscribed, h>>
cliVars == <<clientLock, registry, closed, disp, cl>>

\* ---------------------------------------------------------------- helpers
IdleH == [pc |-> "idle", kind |-> "none", addr |-> "", event |-> 0,
          tried |-> {}, ok |-> {}, read |-> ZeroState]

NoDispatch == [active |-> FALSE, state |-> ZeroState, todo |-> {}, cur |-> -1,
               got |-> {}, fired |-> {}]

NoClient == [pc |-> "none", cancelled |-> FALSE, last |-> ZeroState,
             rd |-> "none", msg |-> FALSE, wire |-> "", notified |-> FALSE]

\* Run before its first connect(): i = 0; connect() at entry: try = 0,
\* lastErr = nil, nothing returned yet.
NoConnect == [i |-> 0, try |-> 0, lastErr |-> "", ret |-> ""]

\* handleClient after its deferred calls, in order: conn.Close, which ends a
\* reader that is reading; client.Cancel; the start of the drain goroutine;
\* group.Wait for the reader. Exited: handleClient has returned. Blocked: the
\* reader is at messageChan <- message, which nobody receives any more, and
\* handleClient stays in group.Wait.
Exited == [NoClient EXCEPT !.pc = "exited", !.cancelled = TRUE, !.rd = "returned"]
Blocked == [NoClient EXCEPT !.pc = "blocked", !.cancelled = TRUE, !.rd = "sending"]
\* (mutant) handleClient returns without its deferred client.Cancel().
LeaveUncancelled(r) ==
    IF r.rd = "sending" THEN [Blocked EXCEPT !.cancelled = r.cancelled]
                        ELSE [Exited EXCEPT !.cancelled = r.cancelled]

Leave(r) == IF r.rd = "sending" THEN Blocked ELSE Exited

\* client.Context.Done() is closed: Cancel was called or the parent is cancelled
Done(c) == cl[c].cancelled \/ ctxDone

\* What a getter of the Mug can return: an error (with the zero value), or, when
\* the characteristic exists, any value of the attribute's type.
ReadResults(attr) ==
    {[ok |-> FALSE, val |-> ZeroState[attr]]} \cup
    (IF Characteristic(attr) \in exposed
        THEN {[ok |-> TRUE, val |-> v] : v \in Values(attr)}
        ELSE {})

\* The handler returns: deferred s.mugLock.Unlock(); Run goes on to the accept
\* loop if this was its own call of handleConnectionEvent.
Return ==
    /\ h' = IdleH
    /\ mugLock' = "free"
    /\ run' = IF run = "initial" THEN "serving" ELSE run

\* Mug.Events not called yet: no callback registered with the events
\* characteristic, the events channel not made, no notification in a callback
\* (cb = 0), nothing yielded (last = 0), the caller's context not cancelled.
NoIter == [pc |-> "new", registered |-> FALSE, closed |-> FALSE, cb |-> 0,
           last |-> 0, ctxDone |-> FALSE]

\* A Color and its codec: MarshalBinary writes the channels in the order Red,
\* Green, Blue, Alpha; UnmarshalBinary takes Red, Blue, Green, Alpha from
\* bytes 0, 1, 2, 3 and fails on fewer than four bytes.
Channels == 0..MaxChannel
Colors == [Red : Channels, Green : Channels, Blue : Channels, Alpha : Channels]
ZeroColor == [Red |-> 0, Green |-> 0, Blue |-> 0, Alpha |-> 0]
NoColor == [pc |-> "none", c |-> ZeroColor, data |-> <<>>, err |-> FALSE, out |-> ZeroColor]

MarshalBinary(c) == <<c.Red, c.Green, c.Blue, c.Alpha>>

\* c.UnmarshalBinary(data): the error, and the receiver afterwards.
UnmarshalBinary(c, data) ==
    IF Len(data) < 4
       THEN [err |-> TRUE, c |-> c]
       ELSE [err |-> FALSE,
             c |-> [Red |-> data[1], Blue |-> data[2], Green |-> data[3], Alpha |-> data[4]]]

\* ------------------------------------------------------------------ Init
InitService ==
    /\ alive = TRUE
    /\ run = "new"
    /\ ctxDone = FALSE
    /\ state = ZeroState
    /\ mug = "nil"
    /\ mugLock = "free"
    /\ subscribed = FALSE
    /\ h = IdleH
    /\ clientLock = "free"
    /\ registry = {}
    /\ closed = {}
    /\ disp = NoDispatch
    /\ cl = [c \in ClientIds |-> NoClient]
    /\ stable = {ZeroState}
    /\ lastAddr = ""
    /\ conn = NoConnect
    /\ log = <<>>
    /\ iter = NoIter

InitCommon == InitService /\ color = NoColor

\* The service with its clients, in front of a mug that exposes the events and
\* the current-temperature characteristics only.
Init == InitCommon /\ exposed = {"events", "currentTemp"}

\* The service in front of a mug that exposes every characteristic.
InitDevice == InitCommon /\ exposed = AllCharacteristics

\* The service in front of a mug that does, or does not, expose the events
\* characteristic (New sets a field of the Mug only for a characteristic that
\* discovery returned).
InitSetup == InitCommon /\ exposed \in {{"currentTemp"}, {"events", "currentTemp"}}

\* The service in front of a mug that exposes the events and the liquid-state
\* characteristics.
InitNotifier == InitCommon /\ exposed = {"events", "liquidState"}

\* ------------------------------------------- serviceEntrypoint and Run
\* serviceEntrypoint up to the call of Run: with notifications enabled it
\* registers a client and starts notifierClient on it.
ServiceEntrypoint(enable) ==
    /\ alive /\ run = "new"
    /\ run' = "connect"
    /\ registry' = IF enable THEN registry \cup {0} ELSE registry
    /\ cl' = IF enable THEN [cl EXCEPT ![0] = [NoClient EXCEPT !.pc = "start"]] ELSE cl
    /\ UNCHANGED <<alive, exposed, ctxDone, svcVars, clientLock, closed, disp, stable, lastAddr, conn, log, iter, color>>

\* (mutant) handleConnectionEvent without the address filter.
EnterConnectionEventNoFilter(addr, connected) ==
    /\ mugLock = "free"
    /\ mugLock' = "held"
    /\ h' = [IdleH EXCEPT !.pc = IF connected THEN "setup" ELSE "clearMug",
                          !.kind = IF connected THEN "connect" ELSE "disconnect",
                          !.addr = addr]
    /\ UNCHANGED <<state, mug, subscribed>>

\* handleConnectionEvent up to the acquisition of mugLock: the address filter,
\* then Lock.
EnterConnectionEvent(addr, connected) ==
    IF addr # deviceAddress
       THEN UNCHANGED <<state, mug, mugLock, subscribed, h>>
       ELSE /\ mugLock = "free"
            /\ mugLock' = "held"
            /\ h' = [IdleH EXCEPT !.pc = IF connected THEN "setup" ELSE "clearMug",
                                  !.kind = IF connected THEN "connect" ELSE "disconnect",
                                  !.addr = addr]
            /\ UNCHANGED <<state, mug, subscribed>>

\* (mutant) connect() keeps the error of its first failed attempt.
ConnectAttemptFirstError(result) ==
    /\ alive /\ run = "connect" /\ conn.ret = ""
    /\ conn' = IF result = "ok"
                  THEN [conn EXCEPT !.ret = "device"]
                  ELSE LET first == IF conn.lastErr = "" THEN result ELSE conn.lastErr IN
                       [conn EXCEPT !.lastErr = first,
                                    !.try = @ + 1,
                                    !.ret = IF conn.try + 1 = MaxTries THEN first ELSE ""]
    /\ UNCHANGED <<alive, exposed, run, ctxDone, svcVars, cliVars, stable, lastAddr, iter, color>>

\* One iteration of connect()'s loop, called by Run:
\* bluetoothAdapter.Connect returns a device, which connect() returns at once,
\* or an error, which becomes lastErr; after the last try connect() returns
\* lastErr.
ConnectAttempt(result) ==
    /\ alive /\ run = "connect" /\ conn.ret = ""
    /\ conn' = IF result = "ok"
                  THEN [conn EXCEPT !.ret = "device"]
                  ELSE [conn EXCEPT !.lastErr = result,
                                    !.try = @ + 1,
                                    !.ret = IF conn.try + 1 = MaxTries THEN result ELSE ""]
    /\ UNCHANGED <<alive, exposed, run, ctxDone, svcVars, cliVars, stable, lastAddr, iter, color>>

\* (mutant) Run gives up after its first failed connect().
RunConnectOnce ==
    /\ alive /\ run = "connect" /\ conn.ret # ""
    /\ IF conn.ret = "device"
          THEN /\ EnterConnectionEvent(deviceAddress, TRUE)
               /\ run' = "initial"
               /\ conn' = NoConnect
          ELSE /\ run' = "serving"
               /\ conn' = NoConnect
               /\ UNCHANGED svcVars
    /\ log' = <<>>
    /\ UNCHANGED <<alive, exposed, ctxDone, cliVars, stable, lastAddr, iter, color>>

\* Run's loop around connect(): on success Run itself calls
\* handleConnectionEvent(device, true) and breaks; on an error it calls
\* connect() again, MaxConnects times at most; either way it goes on to
\* SetConnectHandler and the accept loop, where i and connect()'s locals are
\* dead.
RunConnect ==
    /\ alive /\ run = "connect" /\ conn.ret # ""
    /\ IF conn.ret = "device"
          THEN /\ EnterConnectionEvent(deviceAddress, TRUE)
               /\ run' = "initial"
               /\ conn' = NoConnect
          ELSE /\ run' = IF conn.i + 1 = MaxConnects THEN "serving" ELSE "connect"
               /\ conn' = IF conn.i + 1 = MaxConnects
                             THEN NoConnect
                             ELSE [NoConnect EXCEPT !.i = conn.i + 1]
               /\ UNCHANGED svcVars
    /\ log' = <<>>
    /\ UNCHANGED <<alive, exposed, ctxDone, cliVars, stable, lastAddr, iter, color>>

\* The parent context is cancelled (SIGINT / SIGTERM).
Shutdown ==
    /\ alive /\ run # "new" /\ ~ctxDone
    /\ ctxDone' = TRUE
    /\ UNCHANGED <<alive, exposed, run, svcVars, cliVars, stable, lastAddr, conn, log, iter, color>>

\* The goroutine of Run that waits for the context closes the socket, and
\* socket.Accept returns an error: Run returns it, and its deferred calls
\* begin with cancel().
RunAcceptError ==
    /\ alive /\ run = "serving" /\ ctxDone
    /\ run' = "wait"
    /\ UNCHANGED <<alive, exposed, ctxDone, svcVars, cliVars, stable, lastAddr, conn, log, iter, color>>

\* (mutant) Run does not wait for its handleClient goroutines.
RunWaitSkipped ==
    /\ alive /\ run = "wait"
    /\ run' = "disconnect"
    /\ UNCHANGED <<alive, exposed, ctxDone, svcVars, cliVars, stable, lastAddr, conn, log, iter, color>>

\* The deferred group.Wait() of Run returns: every handleClient has returned.
RunWait ==
    /\ alive /\ run = "wait"
    /\ \A c \in SocketIds : cl[c].pc \in {"none", "exited"}
    /\ run' = "disconnect"
    /\ UNCHANGED <<alive, exposed, ctxDone, svcVars, cliVars, stable, lastAddr, conn, log, iter, color>>

\* (mutant) disconnectLocked that goes to s.mug.Close() without
\* s.mug.StopEventNotifications() before it.
RunDisconnectCloseOnly ==
    /\ alive /\ run = "disconnect" /\ mugLock = "free"
    /\ IF mug # "nil"
          THEN mugLock' = "held" /\ run' = "close"
          ELSE mugLock' = mugLock /\ run' = "returned"
    /\ UNCHANGED <<alive, exposed, ctxDone, state, mug, subscribed, h, cliVars, stable, lastAddr, conn, log, iter, color>>

\* The deferred s.disconnect() of Run: it takes mugLock and, when s.mug is not
\* nil, calls s.mug.StopEventNotifications() and has s.mug.Close() next; when
\* s.mug is nil it does neither, releases the lock, and Run has returned.
RunDisconnect ==
    /\ alive /\ run = "disconnect" /\ mugLock = "free"
    /\ IF mug # "nil"
          THEN subscribed' = FALSE /\ mugLock' = "held" /\ run' = "close"
          ELSE subscribed' = subscribed /\ mugLock' = mugLock /\ run' = "returned"
    /\ UNCHANGED <<alive, exposed, ctxDone, state, mug, h, cliVars, stable, lastAddr, conn, log, iter, color>>

\* s.mug.Close() of disconnectLocked, its result ignored; the deferred Unlock
\* releases mugLock and Run has returned.
RunClose ==
    /\ alive /\ run = "close"
    /\ mugLock' = "free"
    /\ run' = "returned"
    /\ UNCHANGED <<alive, exposed, ctxDone, state, mug, subscribed, h, cliVars, stable, lastAddr, conn, log, iter, color>>

\* ------------------------------------------------ handleConnectionEvent
\* The handler SetConnectHandler installed stays installed until the process
\* ends.
HandlerInstalled == run \in {"serving", "wait", "disconnect", "close"}

\* The transport's connectivity callback, for any device.
HandleConnectionEvent(addr, connected) ==
    /\ alive /\ HandlerInstalled
    /\ EnterConnectionEvent(addr, connected)
    /\ UNCHANGED <<alive, exposed, run, ctxDone, cliVars, stable, conn, log, iter, color>>

\* s.mug = nil
ClearMug ==
    /\ alive /\ h.pc = "clearMug"
    /\ mug' = "nil"
    /\ h' = [h EXCEPT !.pc = "clearConnected"]
    /\ UNCHANGED <<alive, exposed, run, ctxDone, state, mugLock, subscribed, cliVars, stable, lastAddr, conn, log, iter, color>>

\* (mutant) the disconnect branch forgets s.state.Connected = false.
ClearConnectedSkipped ==
    /\ alive /\ h.pc = "clearConnected"
    /\ h' = [h EXCEPT !.pc = "dispatch"]
    /\ UNCHANGED <<alive, exposed, run, ctxDone, state, mug, mugLock, subscribed, cliVars,
                   stable, lastAddr, conn, log, iter, color>>

\* (mutant) the disconnect branch resets the whole snapshot.
ClearConnectedReset ==
    /\ alive /\ h.pc = "clearConnected"
    /\ state' = ZeroState
    /\ h' = [h EXCEPT !.pc = "dispatch"]
    /\ UNCHANGED <<alive, exposed, run, ctxDone, mug, mugLock, subscribed, cliVars,
                   stable, lastAddr, conn, log, iter, color>>

\* s.state.Connected = false
ClearConnected ==
    /\ alive /\ h.pc = "clearConnected"
    /\ state' = [state EXCEPT !.Connected = FALSE]
    /\ h' = [h EXCEPT !.pc = "dispatch"]
    /\ UNCHANGED <<alive, exposed, run, ctxDone, mug, mugLock, subscribed, cliVars, stable, lastAddr, conn, log, iter, color>>

\* embermug.New(&device), then mug.StartEventNotifications(s.handleEvent).
\* New fails when discovery fails; StartEventNotifications dereferences
\* m.events, which New leaves nil when the device has no events characteristic.
SetupMug ==
    /\ alive /\ h.pc = "setup"
    /\ \E outcome \in {"newError", "notifyError", "ok"} :
          CASE outcome = "newError" ->
                 Return /\ UNCHANGED <<alive, state, mug, subscribed>>
            [] outcome # "newError" /\ "events" \notin exposed ->
                 alive' = FALSE /\ UNCHANGED <<run, state, mug, mugLock, subscribed, h>>
            [] outcome = "notifyError" /\ "events" \in exposed ->
                 Return /\ UNCHANGED <<alive, state, mug, subscribed>>
            [] outcome = "ok" /\ "events" \in exposed ->
                 /\ subscribed' = TRUE
                 /\ h' = [h EXCEPT !.pc = "setMug"]
                 /\ UNCHANGED <<alive, run, state, mug, mugLock>>
    /\ UNCHANGED <<exposed, ctxDone, cliVars, lastAddr, conn, log, iter, color>>

\* s.mug = mug
SetMug ==
    /\ alive /\ h.pc = "setMug"
    /\ mug' = "mug"
    /\ h' = [h EXCEPT !.pc = "setConnected"]
    /\ UNCHANGED <<alive, exposed, run, ctxDone, state, mugLock, subscribed, cliVars, stable, lastAddr, conn, log, iter, color>>

\* s.state.Connected = true
SetConnected ==
    /\ alive /\ h.pc = "setConnected"
    /\ state' = [state EXCEPT !.Connected = TRUE]
    /\ h' = [h EXCEPT !.pc = "refresh"]
    /\ UNCHANGED <<alive, exposed, run, ctxDone, mug, mugLock, subscribed, cliVars, stable, lastAddr, conn, log, iter, color>>

\* (mutant) the value a getter returned is stored even when it returned an error.
StoreAlways(s, attr, r) == [s EXCEPT ![attr] = r.val]

\* One of the five reads of the full refresh: the next attribute in order is
\* read, and stored only when the read succeeded.
Store(s, attr, r) == IF r.ok THEN [s EXCEPT ![attr] = r.val] ELSE s

RefreshRead ==
    /\ alive /\ h.pc = "refresh"
    /\ LET attr == RefreshOrder[Cardinality(h.tried) + 1] IN
       \E r \in ReadResults(attr) :
          /\ state' = Store(state, attr, r)
          /\ h' = [h EXCEPT !.tried = @ \cup {attr},
                            !.ok = IF r.ok THEN @ \cup {attr} ELSE @,
                            !.read = Store(@, attr, r),
                            !.pc = IF Cardinality(h.tried) + 1 = Len(RefreshOrder)
                                      THEN "dispatch" ELSE "refresh"]
    /\ UNCHANGED <<alive, exposed, run, ctxDone, mug, mugLock, subscribed, cliVars, stable, lastAddr, conn, log, iter, color>>

\* ------------------------------------------------------------- handleEvent
\* (mutant) the current temperature is compared with the stored target.
SameAsStoredTarget(attr, val) ==
    IF attr = "Current" THEN val = state.Target ELSE val = state[attr]

\* The comparison handleEvent makes between the value read and the stored one:
\* == for the scalar attributes, and for the battery the three fields the
\* code compares.
SameAsStored(attr, val) ==
    IF attr = "Battery"
       THEN /\ val.Charging = state.Battery.Charging
            /\ val.Charge = state.Battery.Charge
            /\ val.Temperature = state.Battery.Temperature
       ELSE val = state[attr]

\* (mutant) handleEvent without the s.mug == nil check.
HandleEventNoNilCheck(event) ==
    /\ alive /\ subscribed /\ mugLock = "free"
    /\ mugLock' = "held"
    /\ LET attr == EventAttribute(event) IN
       IF attr = ""
          THEN h' = [IdleH EXCEPT !.pc = "apply", !.kind = "event",
                                  !.addr = deviceAddress, !.event = event]
          ELSE \E r \in ReadResults(attr) :
                 h' = [IdleH EXCEPT !.pc = "apply", !.kind = "event",
                                    !.addr = deviceAddress, !.event = event,
                                    !.tried = {attr},
                                    !.ok = IF r.ok THEN {attr} ELSE {},
                                    !.read = Store(@, attr, r)]
    /\ UNCHANGED <<alive, exposed, run, ctxDone, state, mug, subscribed, cliVars, stable,
                   lastAddr, conn, log, iter, color>>

\* (mutant) handleEvent does not take mugLock.
HandleEventNoLock(event) ==
    /\ alive /\ subscribed
    /\ IF mug = "nil"
          THEN UNCHANGED <<mugLock, h>>
          ELSE /\ mugLock' = "held"
               /\ LET attr == EventAttribute(event) IN
                  IF attr = ""
                     THEN h' = [IdleH EXCEPT !.pc = "apply", !.kind = "event",
                                             !.addr = deviceAddress, !.event = event]
                     ELSE \E r \in ReadResults(attr) :
                            h' = [IdleH EXCEPT !.pc = "apply", !.kind = "event",
                                               !.addr = deviceAddress, !.event = event,
                                               !.tried = {attr},
                                               !.ok = IF r.ok THEN {attr} ELSE {},
                                               !.read = Store(@, attr, r)]
    /\ UNCHANGED <<alive, exposed, run, ctxDone, state, mug, subscribed, cliVars, stable,
                   lastAddr, conn, log, iter, color>>

\* The event callback up to the device read: Lock, the s.mug == nil check, and
\* for a refresh event the getter call.
HandleEvent(event) ==
    /\ alive /\ subscribed /\ mugLock = "free"
    /\ IF mug = "nil"
          THEN UNCHANGED <<mugLock, h>>
          ELSE /\ mugLock' = "held"
               /\ LET attr == EventAttribute(event) IN
                  IF attr = ""
                     THEN h' = [IdleH EXCEPT !.pc = "apply", !.kind = "event",
                                             !.addr = deviceAddress, !.event = event]
                     ELSE \E r \in ReadResults(attr) :
                            h' = [IdleH EXCEPT !.pc = "apply", !.kind = "event",
                                               !.addr = deviceAddress, !.event = event,
                                               !.tried = {attr},
                                               !.ok = IF r.ok THEN {attr} ELSE {},
                                               !.read = Store(@, attr, r)]
    /\ UNCHANGED <<alive, exposed, run, ctxDone, state, mug, subscribed, cliVars, stable, lastAddr, conn, log, iter, color>>

\* (mutant) a Charging / NotCharging event counts as a change only when it
\* flips the flag.
EventOutcomeIfFlipped ==
    LET attr == EventAttribute(h.event)
        flag == h.event = EventCharging IN
    CASE attr # "" /\ attr \notin h.ok ->
             [state |-> state, changed |-> TRUE]
      [] attr # "" /\ attr \in h.ok /\ SameAsStored(attr, h.read[attr]) ->
             [state |-> state, changed |-> FALSE]
      [] attr # "" /\ attr \in h.ok /\ ~SameAsStored(attr, h.read[attr]) ->
             [state |-> [state EXCEPT ![attr] = h.read[attr]], changed |-> TRUE]
      [] h.event \in {EventCharging, EventNotCharging} ->
             [state |-> [state EXCEPT !.Battery.Charging = flag],
              changed |-> state.Battery.Charging # flag]
      [] OTHER ->
             [state |-> state, changed |-> TRUE]

\* The switch of handleEvent on the value read: (new snapshot, changed).
EventOutcome ==
    LET attr == EventAttribute(h.event) IN
    CASE attr # "" /\ attr \notin h.ok ->
             [state |-> state, changed |-> TRUE]
      [] attr # "" /\ attr \in h.ok /\ SameAsStored(attr, h.read[attr]) ->
             [state |-> state, changed |-> FALSE]
      [] attr # "" /\ attr \in h.ok /\ ~SameAsStored(attr, h.read[attr]) ->
             [state |-> [state EXCEPT ![attr] = h.read[attr]], changed |-> TRUE]
      [] h.event = EventCharging ->
             [state |-> [state EXCEPT !.Battery.Charging = TRUE], changed |-> TRUE]
      [] h.event = EventNotCharging ->
             [state |-> [state EXCEPT !.Battery.Charging = FALSE], changed |-> TRUE]
      [] OTHER ->
             [state |-> state, changed |-> TRUE]

ApplyEvent ==
    /\ alive /\ h.pc = "apply"
    /\ state' = EventOutcome.state
    /\ IF EventOutcome.changed
          THEN h' = [IdleH EXCEPT !.pc = "dispatch", !.kind = "event", !.addr = h.addr]
               /\ UNCHANGED <<mugLock, run>>
          ELSE Return
    /\ UNCHANGED <<alive, exposed, ctxDone, mug, subscribed, cliVars, stable, lastAddr, conn, log, iter, color>>

\* ----------------------------------------------------------- dispatchState
\* The next key the range over s.clients yields (any order), -1 at the end.
NextKeys(todo) == IF todo = {} THEN {-1} ELSE todo

\* s.dispatchState(s.state) is entered: clientLock is taken and the loop
\* reaches its first client.
DispatchBegin ==
    /\ alive /\ h.pc = "dispatch" /\ clientLock = "free"
    /\ clientLock' = "held"
    /\ h' = [IdleH EXCEPT !.pc = "dispatching", !.addr = h.addr]
    /\ \E n \in NextKeys(registry) :
          disp' = [active |-> TRUE, state |-> state, todo |-> registry \ {n},
                   cur |-> n, got |-> {},
                   fired |-> {c \in registry : Done(c)}]
    /\ UNCHANGED <<alive, exposed, run, ctxDone, state, mug, mugLock, subscribed,
                   registry, closed, cl, stable, lastAddr, conn, log, iter, color>>

\* A task is blocked receiving on the client's Channel: handleClient's select,
\* the drain goroutine handleClient leaves behind, or notifierClient's select.
CanReceive(c) ==
    /\ c \notin closed
    /\ IF IsNotifier(c) THEN cl[c].pc = "loop"
                       ELSE cl[c].pc \in {"serving", "blocked", "exited"}

\* (mutant) handleClient receives the snapshot and writes nothing.
ReceivedNotWritten(c, v, writeOk) ==
    CASE IsNotifier(c) ->
            [cl[c] EXCEPT !.last = [ZeroState EXCEPT !.State = v.State],
                          !.notified = cl[c].last.State # v.State /\ v.State = StateStable]
      [] OTHER -> cl[c]

\* (mutant) notifierClient notifies at every Stable snapshot.
ReceivedNotifyStable(c, v, writeOk) ==
    CASE IsNotifier(c) ->
            [cl[c] EXCEPT !.last = [ZeroState EXCEPT !.State = v.State],
                          !.notified = v.State = StateStable]
      [] ~IsNotifier(c) /\ cl[c].pc = "serving" ->
            IF writeOk THEN [cl[c] EXCEPT !.last = v] ELSE Leave(cl[c])
      [] OTHER -> cl[c]

\* What the receiving task does with the snapshot: handleClient writes it to
\* the socket and leaves when the write fails, the drain goroutine drops it,
\* notifierClient calls SendNotification when the State is StateStable and
\* differs from lastState, and remembers the State as lastState.
Received(c, v, writeOk) ==
    CASE IsNotifier(c) ->
            [cl[c] EXCEPT !.last = [ZeroState EXCEPT !.State = v.State],
                          !.notified = cl[c].last.State # v.State /\ v.State = StateStable]
      [] ~IsNotifier(c) /\ cl[c].pc = "serving" ->
            IF writeOk THEN [cl[c] EXCEPT !.last = v] ELSE Leave(cl[c])
      [] OTHER -> cl[c]

\* (mutant) the loop does not move on after a send.
DispatchSendAgain(c) ==
    /\ alive /\ disp.active /\ disp.cur = c /\ CanReceive(c)
    /\ \E writeOk \in BOOLEAN :
          /\ cl' = [cl EXCEPT ![c] = Received(c, disp.state, writeOk)]
          /\ disp' = [disp EXCEPT !.got = @ \cup {c}]
    /\ UNCHANGED <<alive, exposed, run, ctxDone, svcVars, clientLock, registry, closed,
                   stable, lastAddr, conn, log, iter, color>>

\* (mutant) a failed write to one client ends the whole dispatch.
DispatchSendStopsOnError(c) ==
    /\ alive /\ disp.active /\ disp.cur = c /\ CanReceive(c)
    /\ \E writeOk \in BOOLEAN, n \in NextKeys(disp.todo) :
          /\ cl' = [cl EXCEPT ![c] = Received(c, disp.state, writeOk)]
          /\ disp' = IF writeOk
                        THEN [disp EXCEPT !.cur = n, !.todo = @ \ {n}, !.got = @ \cup {c}]
                        ELSE [disp EXCEPT !.cur = -1, !.todo = {}, !.got = @ \cup {c}]
    /\ UNCHANGED <<alive, exposed, run, ctxDone, svcVars, clientLock, registry, closed,
                   stable, lastAddr, conn, log, iter, color>>

\* case client.Channel <- state
DispatchSend(c) ==
    /\ alive /\ disp.active /\ disp.cur = c /\ CanReceive(c)
    /\ \E writeOk \in BOOLEAN, n \in NextKeys(disp.todo) :
          /\ cl' = [cl EXCEPT ![c] = Received(c, disp.state, writeOk)]
          /\ disp' = [disp EXCEPT !.cur = n, !.todo = @ \ {n}, !.got = @ \cup {c}]
    /\ UNCHANGED <<alive, exposed, run, ctxDone, svcVars, clientLock, registry, closed, stable, lastAddr, conn, log, iter, color>>

\* (mutant) the send races against the parent context, not the client's own.
DispatchRemoveOnParent(c) ==
    /\ alive /\ disp.active /\ disp.cur = c /\ ctxDone
    /\ closed' = closed \cup {c}
    /\ registry' = registry \ {c}
    /\ \E n \in NextKeys(disp.todo) :
          disp' = [disp EXCEPT !.cur = n, !.todo = @ \ {n}]
    /\ UNCHANGED <<alive, exposed, run, ctxDone, svcVars, clientLock, cl, stable, lastAddr, conn, log, iter, color>>

\* (mutant) the Done case closes the channel and leaves the client in
\* s.clients.
DispatchRemoveKeepsClient(c) ==
    /\ alive /\ disp.active /\ disp.cur = c /\ Done(c)
    /\ closed' = closed \cup {c}
    /\ \E n \in NextKeys(disp.todo) :
          disp' = [disp EXCEPT !.cur = n, !.todo = @ \ {n}]
    /\ UNCHANGED <<alive, exposed, run, ctxDone, svcVars, clientLock, registry, cl, stable, lastAddr, conn, log, iter, color>>

\* case <-client.Context.Done(): close(client.Channel); delete(s.clients, key)
DispatchRemove(c) ==
    /\ alive /\ disp.active /\ disp.cur = c /\ Done(c)
    /\ closed' = closed \cup {c}
    /\ registry' = registry \ {c}
    /\ \E n \in NextKeys(disp.todo) :
          disp' = [disp EXCEPT !.cur = n, !.todo = @ \ {n}]
    /\ UNCHANGED <<alive, exposed, run, ctxDone, svcVars, clientLock, cl, stable, lastAddr, conn, log, iter, color>>

\* (mutant) dispatchState returns without releasing clientLock.
DispatchEndKeepsClientLock ==
    /\ alive /\ disp.active /\ disp.cur = -1
    /\ disp' = NoDispatch
    /\ Return
    /\ UNCHANGED <<alive, exposed, ctxDone, state, mug, subscribed, clientLock, registry, closed, cl,
                   lastAddr, conn, log, iter, color>>

\* The loop is over: clientLock is released, dispatchState returns and so does
\* the handler that called it.
DispatchEnd ==
    /\ alive /\ disp.active /\ disp.cur = -1
    /\ clientLock' = "free"
    /\ disp' = NoDispatch
    /\ Return
    /\ UNCHANGED <<alive, exposed, ctxDone, state, mug, subscribed, registry, closed, cl,
                   lastAddr, conn, log, iter, color>>

\* ------------------------------------------------------------ handleClient
\* (mutant) handleClient makes its client without storing it in s.clients.
AcceptUnregistered(c) ==
    /\ alive /\ run = "serving" /\ ~ctxDone /\ clientLock = "free"
    /\ c \in SocketIds /\ cl[c].pc = "none"
    /\ \A d \in SocketIds : d < c => cl[d].pc # "none"
    /\ cl' = [cl EXCEPT ![c] = [NoClient EXCEPT !.pc = "registered", !.rd = "reading"]]
    /\ UNCHANGED <<alive, exposed, run, ctxDone, svcVars, clientLock, registry, closed, disp,
                   stable, lastAddr, conn, log, iter, color>>

\* socket.Accept returns a connection and handleClient registers a client
\* under a fresh id.
Accept(c) ==
    /\ alive /\ run = "serving" /\ ~ctxDone /\ clientLock = "free"
    /\ c \in SocketIds /\ cl[c].pc = "none"
    /\ \A d \in SocketIds : d < c => cl[d].pc # "none"
    /\ registry' = registry \cup {c}
    /\ cl' = [cl EXCEPT ![c] = [NoClient EXCEPT !.pc = "registered", !.rd = "reading"]]
    /\ UNCHANGED <<alive, exposed, run, ctxDone, svcVars, clientLock, closed, disp, stable, lastAddr, conn, log, iter, color>>

\* s.sendStateToClient(encoder, s.state): s.state is read without mugLock.
InitialSend(c) ==
    /\ alive /\ c \in SocketIds /\ cl[c].pc = "registered"
    /\ \E writeOk \in BOOLEAN :
          cl' = [cl EXCEPT ![c] = IF writeOk
                                     THEN [@ EXCEPT !.pc = "serving", !.last = state]
                                     ELSE Leave(@)]
    /\ UNCHANGED <<alive, exposed, run, ctxDone, svcVars, clientLock, registry, closed, disp, stable, lastAddr, conn, log, iter, color>>

\* case <-client.Context.Done() of the main loop
ClientDone(c) ==
    /\ alive /\ c \in SocketIds /\ cl[c].pc = "serving" /\ Done(c)
    /\ cl' = [cl EXCEPT ![c] = Leave(@)]
    /\ UNCHANGED <<alive, exposed, run, ctxDone, svcVars, clientLock, registry, closed, disp, stable, lastAddr, conn, log, iter, color>>

\* case state := <-client.Channel of the main loop once the channel is closed:
\* the receive yields the zero State, which is written to the socket.
ReceiveClosed(c) ==
    /\ alive /\ c \in SocketIds /\ cl[c].pc = "serving" /\ c \in closed
    /\ \E writeOk \in BOOLEAN :
          cl' = [cl EXCEPT ![c] = IF writeOk
                                     THEN [@ EXCEPT !.last = ZeroState]
                                     ELSE Leave(@)]
    /\ UNCHANGED <<alive, exposed, run, ctxDone, svcVars, clientLock, registry, closed, disp, stable, lastAddr, conn, log, iter, color>>

\* ------------------------------------------ parseAndDeliverClientMessages
\* decoder.Decode fails on a malformed message: client.Cancel(), return.
DecodeError(c) ==
    /\ alive /\ c \in SocketIds /\ cl[c].pc \in {"registered", "serving"}
    /\ cl[c].rd = "reading"
    /\ cl' = [cl EXCEPT ![c].cancelled = TRUE, ![c].rd = "returned"]
    /\ UNCHANGED <<alive, exposed, run, ctxDone, svcVars, clientLock, registry, closed, disp, stable, lastAddr, conn, log, iter, color>>

\* The peer closes or resets the connection: decoder.More() is false (or Decode
\* returns EPIPE) and the reader returns; client.Cancel is not called.
ReaderEOF(c) ==
    /\ alive /\ c \in SocketIds /\ cl[c].pc \in {"registered", "serving"}
    /\ cl[c].rd = "reading"
    /\ cl' = [cl EXCEPT ![c].rd = "returned"]
    /\ UNCHANGED <<alive, exposed, run, ctxDone, svcVars, clientLock, registry, closed, disp, stable, lastAddr, conn, log, iter, color>>

\* What Decode leaves in message.Reconnect, the variable every message of the
\* connection is decoded into: a field the JSON object does not have keeps
\* the value of the previous message.
Decoded(prev, wire) ==
    CASE wire = "true" -> TRUE
      [] wire = "false" -> FALSE
      [] OTHER -> prev

\* decoder.Decode(&message) succeeds on a JSON object whose Reconnect field is
\* true, false or absent; the reader goes on to messageChan <- message.
Decode(c, wire) ==
    /\ alive /\ c \in SocketIds /\ cl[c].pc \in {"registered", "serving"}
    /\ cl[c].rd = "reading"
    /\ cl' = [cl EXCEPT ![c].rd = "sending",
                        ![c].msg = Decoded(@, wire),
                        ![c].wire = wire]
    /\ UNCHANGED <<alive, exposed, run, ctxDone, svcVars, clientLock, registry, closed, disp, stable, lastAddr, conn, log, iter, color>>

\* ------------------------------------------- handleClient, case messageChan
\* (mutant) the result of connect() is only logged.
ReceiveMessageLogOnly(c, result) ==
    /\ alive /\ c \in SocketIds /\ cl[c].pc = "serving" /\ cl[c].rd = "sending"
    /\ IF cl[c].msg THEN result \in {"device"} \cup Errors ELSE result = "none"
    /\ cl' = [cl EXCEPT ![c].rd = "reading", ![c].wire = ""]
    /\ UNCHANGED <<alive, exposed, run, ctxDone, svcVars, clientLock, registry, closed, disp, stable, lastAddr, conn, log, iter, color>>

\* (mutant) a connect() that succeeds marks the snapshot connected.
ReceiveMessageSetsConnected(c, result) ==
    /\ alive /\ c \in SocketIds /\ cl[c].pc = "serving" /\ cl[c].rd = "sending"
    /\ IF cl[c].msg THEN result \in {"device"} \cup Errors ELSE result = "none"
    /\ cl' = [cl EXCEPT ![c] = IF result \in Errors
                                  THEN Exited
                                  ELSE [@ EXCEPT !.rd = "reading", !.wire = ""]]
    /\ state' = IF result = "device" THEN [state EXCEPT !.Connected = TRUE] ELSE state
    /\ UNCHANGED <<alive, exposed, run, ctxDone, mug, mugLock, subscribed, h, clientLock, registry, closed, disp, stable, lastAddr, conn, log, iter, color>>

\* case msg := <-messageChan of the main loop: the reader goes back to
\* decoding; when msg.Reconnect is set s.connect() is called, with its result
\* (a device or the error of its last attempt), and handleClient returns when
\* that is an error.
ReceiveMessage(c, result) ==
    /\ alive /\ c \in SocketIds /\ cl[c].pc = "serving" /\ cl[c].rd = "sending"
    /\ IF cl[c].msg THEN result \in {"device"} \cup Errors ELSE result = "none"
    /\ cl' = [cl EXCEPT ![c] = IF result \in Errors
                                  THEN Exited
                                  ELSE [@ EXCEPT !.rd = "reading", !.wire = ""]]
    /\ UNCHANGED <<alive, exposed, run, ctxDone, svcVars, clientLock, registry, closed, disp, stable, lastAddr, conn, log, iter, color>>

\* ---------------------------------------------------------- notifierClient
\* dbus.SessionBus(): on an error notifierClient returns, leaving its client
\* registered and its context uncancelled.
NotifierStart ==
    /\ alive /\ cl[0].pc = "start"
    /\ \E busOk \in BOOLEAN :
          cl' = [cl EXCEPT ![0].pc = IF busOk THEN "loop" ELSE "returned"]
    /\ UNCHANGED <<alive, exposed, run, ctxDone, svcVars, clientLock, registry, closed, disp, stable, lastAddr, conn, log, iter, color>>

\* case <-client.Context.Done() of notifierClient
NotifierDone ==
    /\ alive /\ cl[0].pc = "loop" /\ Done(0)
    /\ cl' = [cl EXCEPT ![0].pc = "returned"]
    /\ UNCHANGED <<alive, exposed, run, ctxDone, svcVars, clientLock, registry, closed, disp, stable, lastAddr, conn, log, iter, color>>

\* case state := <-client.Channel of notifierClient once the channel is closed:
\* the receive yields the zero State, which is never StateStable, and lastState
\* becomes its State.
NotifierReceiveClosed ==
    /\ alive /\ cl[0].pc = "loop" /\ 0 \in closed
    /\ cl' = [cl EXCEPT ![0].last = ZeroState, ![0].notified = FALSE]
    /\ UNCHANGED <<alive, exposed, run, ctxDone, svcVars, clientLock, registry, closed, disp, stable, lastAddr, conn, log, iter, color>>

\* --------------------------------------------------------------- Mug.Events
\* What the service leaves alone while the library is driven directly.
serviceVars == <<exposed, run, ctxDone, state, mug, mugLock, subscribed, h, clientLock,
                 registry, closed, disp, cl, stable, lastAddr, conn, log>>

\* m.Events(ctx): ErrUnsupportedCharacteristic when the mug has no events
\* characteristic, the iterator otherwise.
EventsCall ==
    /\ alive /\ iter.pc = "new"
    /\ iter' = [iter EXCEPT !.pc = IF "events" \in exposed THEN "ready" ELSE "unsupported"]
    /\ UNCHANGED <<alive, color>> /\ UNCHANGED serviceVars

\* The caller ranges over the iterator: the three defers are set up, the
\* events channel is made and the callback is registered.
EventsRange ==
    /\ alive /\ iter.pc = "ready"
    /\ iter' = [iter EXCEPT !.pc = "loop", !.registered = TRUE]
    /\ UNCHANGED <<alive, color>> /\ UNCHANGED serviceVars

\* The caller cancels the context it passed to Events.
EventsCtxCancel ==
    /\ alive /\ iter.pc \in {"ready", "loop"} /\ ~iter.ctxDone
    /\ iter' = [iter EXCEPT !.ctxDone = TRUE]
    /\ UNCHANGED <<alive, color>> /\ UNCHANGED serviceVars

\* The device notifies event e and the library runs the registered callback,
\* `events <- Event(data[0])`: a send on the closed channel panics, a send on
\* the open one waits for the iterator to receive.
Notification(e) ==
    /\ alive /\ iter.registered /\ iter.cb = 0
    /\ IF iter.closed
          THEN alive' = FALSE /\ UNCHANGED iter
          ELSE iter' = [iter EXCEPT !.cb = e] /\ UNCHANGED alive
    /\ UNCHANGED color /\ UNCHANGED serviceVars

\* case event := <-events: the event is yielded; the loop goes on when the
\* consumer returns true and the iterator returns when it returns false.
IterYield(more) ==
    /\ alive /\ iter.pc = "loop" /\ iter.cb # 0
    /\ iter' = [iter EXCEPT !.last = iter.cb, !.cb = 0,
                            !.pc = IF more THEN "loop" ELSE "cancel"]
    /\ UNCHANGED <<alive, color>> /\ UNCHANGED serviceVars

\* case <-ctx.Done(): the iterator returns.
IterCtxDone ==
    /\ alive /\ iter.pc = "loop" /\ iter.ctxDone
    /\ iter' = [iter EXCEPT !.pc = "cancel"]
    /\ UNCHANGED <<alive, color>> /\ UNCHANGED serviceVars

\* The last defer registered runs first: cancel().
IterDeferCancel ==
    /\ alive /\ iter.pc = "cancel"
    /\ iter' = [iter EXCEPT !.pc = "close"]
    /\ UNCHANGED <<alive, color>> /\ UNCHANGED serviceVars

\* Then close(events): a callback waiting in its send panics.
IterDeferClose ==
    /\ alive /\ iter.pc = "close"
    /\ iter' = [iter EXCEPT !.pc = "unregister", !.closed = TRUE]
    /\ alive' = (iter.cb = 0)
    /\ UNCHANGED color /\ UNCHANGED serviceVars

\* Then, last, m.events.EnableNotifications(nil).
IterDeferUnregister ==
    /\ alive /\ iter.pc = "unregister"
    /\ iter' = [iter EXCEPT !.pc = "done", !.registered = FALSE]
    /\ UNCHANGED <<alive, color>> /\ UNCHANGED serviceVars

\* -------------------------------------------------------------------- Color
\* data, _ := c.MarshalBinary()
ColorMarshal ==
    /\ color.pc = "value"
    /\ color' = [color EXCEPT !.pc = "encoded", !.data = MarshalBinary(color.c)]
    /\ UNCHANGED <<alive, iter>> /\ UNCHANGED serviceVars

\* err := out.UnmarshalBinary(data), out a zero Color.
ColorUnmarshal ==
    /\ color.pc = "encoded"
    /\ LET r == UnmarshalBinary(ZeroColor, color.data)
       IN color' = [color EXCEPT !.pc = "decoded", !.err = r.err, !.out = r.c]
    /\ UNCHANGED <<alive, iter>> /\ UNCHANGED serviceVars

\* ------------------------------------------------------------ specifications
\* The two history variables are kept by the specifications that read them.
RecordStable == stable' = IF h'.pc = "idle" THEN stable \cup {state'} ELSE stable

Handlers ==
    \/ ClearMug
    \/ ClearConnected
    \/ SetMug
    \/ SetConnected
    \/ RefreshRead
    \/ \E event \in Events : HandleEvent(event)
    \/ ApplyEvent
    \/ DispatchBegin

ClientTasks ==
    \/ \E c \in ClientIds : DispatchSend(c)
    \/ \E c \in ClientIds : DispatchRemove(c)
    \/ \E c \in SocketIds : Accept(c)
    \/ \E c \in SocketIds : InitialSend(c)
    \/ \E c \in SocketIds : ClientDone(c)
    \/ \E c \in SocketIds : ReceiveClosed(c)
    \/ \E c \in SocketIds : DecodeError(c)
    \/ NotifierStart
    \/ NotifierDone
    \/ NotifierReceiveClosed
    \/ Shutdown

\* Run after the cancellation of its context.
RunReturn ==
    \/ RunAcceptError
    \/ RunWait
    \/ RunDisconnect
    \/ RunClose

\* What a peer that sends control messages, or goes away, adds.
MessageTasks ==
    \/ \E c \in SocketIds : ReaderEOF(c)
    \/ \E c \in SocketIds, wire \in WireValues : Decode(c, wire)
    \/ \E c \in SocketIds, result \in ConnectResults : ReceiveMessage(c, result)

\* The service with a socket client and, optionally, the notifier.
Next ==
    \/ \E enable \in BOOLEAN : ServiceEntrypoint(enable)
    \/ \E result \in TransportResults : ConnectAttempt(result) /\ UNCHANGED log
    \/ RunConnect
    \/ RunReturn
    \/ \E addr \in Addresses, connected \in BOOLEAN :
          HandleConnectionEvent(addr, connected) /\ UNCHANGED lastAddr
    \/ SetupMug /\ UNCHANGED stable
    \/ Handlers
    \/ ClientTasks
    \/ MessageTasks
    \/ DispatchEnd /\ UNCHANGED stable

Spec == Init /\ [][Next]_vars

\* A goroutine that can take a step takes one: a dispatchState whose select
\* has a ready case proceeds.
DispatchStep == \E c \in ClientIds : DispatchSend(c) \/ DispatchRemove(c)

FairSpec == Init /\ [][Next]_vars /\ WF_vars(DispatchStep)

\* Every goroutine of the service that can take a step takes one; a goroutine
\* waiting for mugLock gets it (sync.Mutex does not starve a waiter). The
\* peers and the mug owe nothing: no message, event or callback has to come.
FairRun ==
    /\ Init /\ [][Next]_vars
    /\ WF_vars(\E result \in TransportResults : ConnectAttempt(result) /\ UNCHANGED log)
    /\ WF_vars(RunConnect)
    /\ WF_vars(RunAcceptError)
    /\ WF_vars(RunWait)
    /\ SF_vars(RunDisconnect)
    /\ WF_vars(RunClose)
    /\ WF_vars((SetupMug /\ UNCHANGED stable) \/ Handlers)
    /\ WF_vars(DispatchStep)
    /\ WF_vars(DispatchEnd /\ UNCHANGED stable)
    /\ \A c \in SocketIds : WF_vars(InitialSend(c)) /\ WF_vars(ClientDone(c))
    /\ WF_vars(NotifierStart) /\ WF_vars(NotifierDone)

\* The service, up to the cancellation of its context, with peers that send
\* nothing, and the history of snapshots recorded.
NextHistory ==
    \/ \E enable \in BOOLEAN : ServiceEntrypoint(enable)
    \/ \E result \in TransportResults : ConnectAttempt(result) /\ UNCHANGED log
    \/ RunConnect
    \/ \E addr \in Addresses, connected \in BOOLEAN :
          HandleConnectionEvent(addr, connected) /\ UNCHANGED lastAddr
    \/ SetupMug /\ RecordStable
    \/ Handlers
    \/ ClientTasks
    \/ DispatchEnd /\ RecordStable

SpecHistory == Init /\ [][NextHistory]_vars

\* The service alone, notifications disabled and no socket client, in front
\* of a mug that exposes every characteristic; the address of the latest
\* connectivity callback is recorded.
NextDevice ==
    \/ ServiceEntrypoint(FALSE)
    \/ \E result \in TransportResults : ConnectAttempt(result) /\ UNCHANGED log
    \/ RunConnect
    \/ \E addr \in Addresses, connected \in BOOLEAN :
          HandleConnectionEvent(addr, connected) /\ lastAddr' = addr
    \/ SetupMug /\ UNCHANGED stable
    \/ Handlers
    \/ DispatchEnd /\ UNCHANGED stable

SpecDevice == InitDevice /\ [][NextDevice]_vars

\* The service started with notifications enabled and no socket client, in
\* front of a mug whose liquid state can be read.
NextNotifier ==
    \/ ServiceEntrypoint(TRUE)
    \/ \E result \in TransportResults : ConnectAttempt(result) /\ UNCHANGED log
    \/ RunConnect
    \/ \E addr \in Addresses, connected \in BOOLEAN :
          HandleConnectionEvent(addr, connected) /\ UNCHANGED lastAddr
    \/ SetupMug /\ UNCHANGED stable
    \/ Handlers
    \/ DispatchSend(0)
    \/ DispatchRemove(0)
    \/ NotifierStart
    \/ NotifierDone
    \/ NotifierReceiveClosed
    \/ Shutdown
    \/ DispatchEnd /\ UNCHANGED stable

SpecNotifier == InitNotifier /\ [][NextNotifier]_vars

\* The service alone in front of either mug of InitSetup.
SpecSetup == InitSetup /\ [][NextDevice]_vars

\* Run up to the end of its connection loop, with the transport's answers to
\* the connect() call in progress recorded.
NextConnect ==
    \/ ServiceEntrypoint(FALSE)
    \/ \E result \in TransportResults :
          ConnectAttempt(result) /\ log' = Append(log, result)
    \/ RunConnect

SpecConnect == Init /\ [][NextConnect]_vars

\* The service in front of a transport that cannot reach the mug while Run
\* starts: every attempt of every connect() of Run fails.
NextStartFails ==
    \/ \E enable \in BOOLEAN : ServiceEntrypoint(enable)
    \/ \E result \in Errors : ConnectAttempt(result) /\ UNCHANGED log
    \/ RunConnect
    \/ RunReturn
    \/ \E addr \in Addresses, connected \in BOOLEAN :
          HandleConnectionEvent(addr, connected) /\ UNCHANGED lastAddr
    \/ SetupMug /\ UNCHANGED stable
    \/ Handlers
    \/ ClientTasks
    \/ DispatchEnd /\ UNCHANGED stable

SpecStartFails == Init /\ [][NextStartFails]_vars

\* Mug.Events driven directly (the service never calls it), on a mug with and
\* without the events characteristic.
InitEvents == InitCommon /\ exposed \in {{}, {"events"}}

NextEvents ==
    \/ EventsCall
    \/ EventsRange
    \/ EventsCtxCancel
    \/ \E e \in Events : Notification(e)
    \/ \E more \in BOOLEAN : IterYield(more)
    \/ IterCtxDone
    \/ IterDeferCancel
    \/ IterDeferClose
    \/ IterDeferUnregister

SpecEvents == InitEvents /\ [][NextEvents]_vars

\* The Color codec applied to every Color with channels in 0..MaxChannel.
InitColor ==
    /\ InitService
    /\ exposed = AllCharacteristics
    /\ color \in {[NoColor EXCEPT !.pc = "value", !.c = c] : c \in Colors}

NextColor ==
    \/ ColorMarshal
    \/ ColorUnmarshal

SpecColor == InitColor /\ [][NextColor]_vars

\* ------------------------------------------------------------------ claims
\* Clients the loop of the dispatchState in progress has still to reach,
\* the one it is at included.
Pending == (disp.todo \cup {disp.cur}) \ {-1}

\* C1: a connectivity callback whose address is not the configured one changes
\* nothing (snapshot, session, lock, dispatch, clients); the callback that
\* holds mugLock is always one for the configured address, and the snapshot,
\* the session and the dispatch in progress change only in its steps.
C1_FilterByAddress ==
    /\ [](h.pc # "idle" => h.addr = deviceAddress)
    /\ [][/\ \A a \in Addresses \ {deviceAddress}, c \in BOOLEAN :
               (HandleConnectionEvent(a, c) /\ lastAddr' = a)
                  => UNCHANGED <<state, mug, mugLock, h, disp, cl, registry, closed>>
          /\ (state' # state \/ mug' # mug \/ disp' # disp)
                  => (h.pc # "idle" /\ h.addr = deviceAddress)]_vars

\* The latest connectivity callback was one for another device, and it was
\* delivered while the mug was connected with a temperature read.
C1_Witness ==
    /\ lastAddr = "other" /\ h.pc = "idle"
    /\ mug = "mug" /\ state.Connected /\ state.Current # 0

\* C2: whenever mugLock is free, s.mug is non-nil exactly when
\* s.state.Connected; both change only in steps of handleConnectionEvent,
\* which holds mugLock before and after the step.
C2_SessionIffConnected ==
    /\ [](mugLock = "free" => (mug # "nil" <=> state.Connected))
    /\ [][(mug' # mug \/ state'.Connected # state.Connected)
             => /\ mugLock = "held" /\ mugLock' = "held"
                /\ h.kind \in {"connect", "disconnect"}]_vars

C2_Witness == mugLock = "free" /\ mug = "mug" /\ state.Connected

\* C3: a registered client that never reads and is not cancelled does not keep
\* the other clients from receiving: dispatchState never waits on such a client
\* while a live client that is ready to receive has still to be reached.
NeverReads(c) == IsNotifier(c) /\ cl[c].pc = "returned"

C3_StalledClientHarmless ==
    \A c \in ClientIds :
        (disp.active /\ disp.cur = c /\ NeverReads(c) /\ ~Done(c))
           => \A d \in disp.todo : ~(cl[d].pc = "serving" /\ ~Done(d))

\* C4: in one dispatchState the value offered is the snapshot it was called
\* with; no client that has received is offered it again; every registered
\* client the loop has passed has received it (at the end of the loop, every
\* registered client), and what it received is that value.
C4_OneCopyOfTheSnapshot ==
    disp.active =>
        /\ disp.state = state
        /\ disp.got \cap Pending = {}
        /\ disp.got = registry \ Pending
        /\ \A c \in disp.got :
              /\ (~IsNotifier(c) /\ cl[c].pc = "serving") => cl[c].last = disp.state
              /\ (IsNotifier(c) /\ cl[c].pc = "loop") => cl[c].last.State = disp.state.State

\* A dispatch has ended its loop after handing a snapshot with a temperature
\* to the notifier and to a socket client.
C4_Witness ==
    /\ disp.active /\ disp.cur = -1
    /\ disp.got = {0, 1} /\ cl[1].pc = "serving"
    /\ disp.state.Current # 0

\* C5: a client whose cancellation had fired when dispatchState was entered
\* receives nothing from that dispatch and is out of the registry when its
\* loop ends.
C5_CancelledClientRemoved ==
    disp.active =>
        /\ disp.fired \cap disp.got = {}
        /\ disp.cur = -1 => disp.fired \cap registry = {}

\* C6: once the cancellation of the client dispatchState is at has fired, the
\* loop moves on from that client.
C6_CancelledClientReleasesDispatch ==
    \A c \in ClientIds : (disp.active /\ disp.cur = c /\ Done(c)) ~> (disp.cur # c)

\* dispatchState is at a client that is cancelled and that no task receives for.
C6_Witness ==
    \E c \in ClientIds : disp.active /\ disp.cur = c /\ Done(c) /\ ~CanReceive(c)

\* C7: when handleConnectionEvent(target, true) reaches its dispatch, Connected
\* is true, the session is set, all five reads were attempted and every
\* attribute read successfully holds the value read; each read step stores
\* nothing when it failed and touches no other field, and goes on to the next
\* read; the snapshot reached is the one dispatched.
C7_FullRefresh ==
    /\ []((h.kind = "connect" /\ h.pc = "dispatch") =>
            /\ state.Connected /\ mug = "mug"
            /\ h.tried = Attributes
            /\ \A a \in h.ok : state[a] = h.read[a])
    /\ [][/\ (h.pc = "refresh" /\ h' # h) =>
               LET a == RefreshOrder[Cardinality(h.tried) + 1] IN
               /\ h'.tried = h.tried \cup {a}
               /\ h'.pc = IF h'.tried = Attributes THEN "dispatch" ELSE "refresh"
               /\ a \notin h'.ok => state' = state
               /\ a \in h'.ok => state' = [state EXCEPT ![a] = h'.read[a]]
          /\ (h.kind = "connect" /\ h.pc = "dispatch" /\ h' # h) =>
               /\ disp'.active /\ disp'.state = state /\ state' = state]_vars

\* A refresh in which some reads failed and some succeeded is about to dispatch.
C7_Witness ==
    /\ h.kind = "connect" /\ h.pc = "dispatch"
    /\ h.ok # {} /\ h.ok # Attributes
    /\ "Battery" \in h.ok /\ state.Battery # ZeroBattery

\* C8: handleConnectionEvent(target, false) sets s.mug to nil, then Connected
\* to false leaving every other field of the snapshot as it was, and calls
\* dispatchState with the resulting snapshot, whose loop covers the whole
\* registry.
C8_Disconnect ==
    /\ []((h.kind = "disconnect" /\ h.pc = "dispatch") =>
             (mug = "nil" /\ ~state.Connected))
    /\ [][/\ (h.kind = "disconnect" /\ h.pc = "clearMug" /\ h' # h) =>
               (mug' = "nil" /\ state' = state)
          /\ (h.kind = "disconnect" /\ h.pc = "clearConnected" /\ h' # h) =>
               (mug' = mug /\ state' = [state EXCEPT !.Connected = FALSE])
          /\ (h.kind = "disconnect" /\ h.pc = "dispatch" /\ h' # h) =>
               /\ state' = state
               /\ disp'.active /\ disp'.state = state
               /\ (disp'.todo \cup {disp'.cur}) \ {-1} = registry]_vars

\* A disconnect of a mug whose temperature had been read is dispatched to two
\* registered clients.
C8_Witness ==
    /\ disp.active /\ ~disp.state.Connected /\ disp.state.Current # 0
    /\ Cardinality(Pending) = 2

\* C9: every snapshot a socket client has written is one s.state held at a
\* moment when no callback was updating it.
C9_NoHalfUpdatedSnapshot ==
    h.pc = "idle" =>
        \A c \in SocketIds : cl[c].pc = "serving" => cl[c].last \in stable

\* C10: handleEvent for RefreshState, RefreshTemperature, RefreshTarget or
\* RefreshLevel whose read succeeded: an equal value leaves the snapshot as it
\* is and the handler returns without a dispatch; a different value is stored
\* in that one field and the handler goes on to dispatchState, called once
\* with the resulting snapshot.
ScalarAttributes == {"State", "Current", "Target", "HasLiquid"}

C10_RefreshEvent ==
    [][/\ (/\ h.pc = "apply" /\ h' # h
           /\ EventAttribute(h.event) \in ScalarAttributes
           /\ EventAttribute(h.event) \in h.ok) =>
            LET a == EventAttribute(h.event) IN
            IF h.read[a] = state[a]
               THEN state' = state /\ h'.pc = "idle" /\ ~disp'.active
               ELSE /\ state' = [state EXCEPT ![a] = h.read[a]]
                    /\ h'.pc = "dispatch" /\ h'.kind = "event"
       /\ (h.kind = "event" /\ h.pc = "dispatch" /\ h' # h) =>
            /\ state' = state /\ h'.pc = "dispatching"
            /\ disp'.active /\ disp'.state = state
       /\ (h.pc = "dispatching" /\ h' # h) => (h'.pc = "idle" /\ ~disp'.active)]_vars

\* A RefreshTemperature event has read a temperature other than the stored one.
C10_Witness ==
    /\ h.pc = "apply" /\ h.event = EventRefreshTemperature
    /\ "Current" \in h.ok /\ h.read.Current # state.Current
    /\ state.Target # state.Current

\* C11: a refresh event whose device read failed leaves the snapshot as it is
\* and handleEvent returns without calling dispatchState.
C11_FailedReadNotReported ==
    [][(/\ h.pc = "apply" /\ h' # h
        /\ EventAttribute(h.event) # ""
        /\ EventAttribute(h.event) \notin h.ok)
          => (state' = state /\ h'.pc = "idle" /\ ~disp'.active)]_vars

\* C12: a Charging (NotCharging) event handled with a session reads nothing
\* from the device, sets Battery.Charging to TRUE (FALSE) and nothing else,
\* and handleEvent goes on to dispatchState with the resulting snapshot,
\* whatever the flag was before.
C12_ChargingEvent ==
    [][/\ (h.pc = "apply" /\ h' # h /\ h.event \in {EventCharging, EventNotCharging}) =>
            /\ h.tried = {}
            /\ state' = [state EXCEPT !.Battery.Charging = (h.event = EventCharging)]
            /\ h'.pc = "dispatch" /\ h'.kind = "event"
       /\ (h.kind = "event" /\ h.pc = "dispatch" /\ h' # h) =>
            (h'.pc = "dispatching" /\ disp'.active /\ disp'.state = state)]_vars

\* A Charging event is being applied while the flag is already set, in front
\* of a mug whose battery characteristic cannot be read.
C12_Witness ==
    /\ h.pc = "apply" /\ h.event = EventCharging
    /\ state.Battery.Charging /\ "battery" \notin exposed

\* C13: a RefreshBattery event whose read succeeded stores the battery read
\* and dispatches exactly when it differs from the stored battery in some
\* field (Charge, Charging, Temperature or Voltage).
C13_BatteryStructuralEquality ==
    [][(h.pc = "apply" /\ h' # h /\ h.event = EventRefreshBattery /\ "Battery" \in h.ok) =>
          IF h.read.Battery = state.Battery
             THEN state' = state /\ h'.pc = "idle"
             ELSE /\ state' = [state EXCEPT !.Battery = h.read.Battery]
                  /\ h'.pc = "dispatch"]_vars

\* C14: a NotImplemented event leaves the snapshot as it is and handleEvent
\* returns without calling dispatchState.
C14_NotImplementedInert ==
    [][(h.pc = "apply" /\ h' # h /\ h.event = EventNotImplemented)
          => (state' = state /\ h'.pc = "idle" /\ ~disp'.active)]_vars

\* C15: one call of connect() makes at most MaxTries attempts; an attempt that
\* succeeds is its last and connect() returns its device; once MaxTries
\* attempts have failed connect() returns the error of the last of them; until
\* then it has returned nothing.
C15_ConnectAttempts ==
    LET n == Len(log)
        Failed(k) == log[k] \in Errors
    IN  /\ n <= MaxTries
        /\ \A k \in 1..(n - 1) : Failed(k)
        /\ (n > 0 /\ log[n] = "ok") => (conn.ret = "device" /\ conn.try = n - 1)
        /\ (n = MaxTries /\ Failed(n)) => conn.ret = log[n]
        /\ ((n = 0 \/ Failed(n)) /\ n < MaxTries) => (conn.ret = "" /\ conn.try = n)

\* All MaxTries attempts of a connect() failed, the last two with different
\* errors.
C15_Witness ==
    /\ Len(log) = MaxTries
    /\ log[MaxTries] = "EPIPE" /\ log[MaxTries - 1] = "ETIMEDOUT"
    /\ conn.ret = "EPIPE"

\* C20: once the context passed to Run is cancelled, Run eventually returns,
\* with every handleClient returned and the mug's notifications stopped.
C20_ShutdownCompletes ==
    ctxDone ~> (/\ run = "returned"
                /\ \A c \in SocketIds : cl[c].pc \in {"none", "exited"}
                /\ (mug # "nil" => ~subscribed))

\* C16: when every attempt at start fails, Run leaves its connection loop only
\* after MaxConnects failed connect() calls and goes on to the accept loop,
\* which it leaves only once its context is cancelled; until a later
\* connectivity callback sets a session up, s.state.Connected is false, s.mug
\* is nil, and the snapshot every serving client has been written says so.
C16_StartFailureNotFatal ==
    /\ [][(run = "connect" /\ run' # "connect")
             => (/\ conn.i = MaxConnects - 1 /\ conn.ret \in Errors
                 /\ run' = "serving")]_vars
    /\ [][(run = "serving" /\ run' # "serving") => ctxDone]_vars
    /\ []((run \in {"connect", "serving"} /\ ~subscribed) =>
             /\ ~state.Connected /\ mug = "nil"
             /\ \A c \in SocketIds : cl[c].pc = "serving" => ~cl[c].last.Connected)

\* Run is in its accept loop after a failed start, and a client is being
\* served the snapshot of a mug that is not connected.
C16_Witness ==
    /\ run = "serving" /\ ~ctxDone /\ ~subscribed
    /\ cl[1].pc = "serving" /\ cl[1].last = ZeroState

\* C17: when handleClient handles a reconnect message and connect() returns an
\* error, the session goes on: handleClient is still in its main loop and the
\* reader still decodes.
C17_ReconnectErrorIgnored ==
    [][\A c \in SocketIds, e \in Errors :
          ReceiveMessage(c, e) => (cl'[c].pc = "serving" /\ cl'[c].rd = "reading")]_vars

\* C18: handling a message calls connect() exactly when the Reconnect field of
\* the JSON object received is true, whatever was received before it.
C18_ReconnectPerMessage ==
    [][\A c \in SocketIds, result \in ConnectResults :
          ReceiveMessage(c, result) => (result # "none" <=> cl[c].wire = "true")]_vars

ClientTasksOver == \A c \in SocketIds : cl[c].pc \in {"none", "exited"}

C21_ShutdownOrder ==
    /\ [](run \in {"wait", "disconnect", "close", "returned"} =>
             \A c \in SocketIds : cl[c].pc # "none" => Done(c))
    /\ [][/\ (run = "serving" /\ run' # run) => (ctxDone /\ run' = "wait")
          /\ (run = "wait" /\ run' # run) => (ClientTasksOver /\ run' = "disconnect")
          /\ (run = "disconnect" /\ run' # run) =>
                (run' \in {"close", "returned"} /\ (mug # "nil" => ~subscribed'))
          /\ (run = "close" /\ run' # run) => run' = "returned"
          /\ run = "returned" => run' = run
          /\ (run # "serving") => \A c \in SocketIds : cl[c].pc = "none" => cl'[c].pc = "none"
          /\ (subscribed /\ ~subscribed') =>
                (run = "disconnect" /\ ClientTasksOver /\ ClientTasksOver')]_vars

\* Run has returned after a shutdown that found a client being served and a
\* session with the mug: the client's task is over and the notifications are
\* stopped.
C21_Witness ==
    /\ run = "returned" /\ ctxDone
    /\ cl[1].pc = "exited" /\ mug = "mug" /\ ~subscribed

\* C22: a step in which the context of a socket client becomes cancelled by
\* its own session (client.Cancel() of the reader after a decode failure, or
\* the teardown of handleClient after a failed write) leaves the snapshot,
\* the session with the mug, both locks, the registry and every other
\* client's task as they are, and the dispatch in progress, when the failed
\* write was of its snapshot, goes on to the clients it has still to reach.
C22_ClientFailureIsolated ==
    [][\A c \in SocketIds :
          (~cl[c].cancelled /\ cl'[c].cancelled) =>
             /\ UNCHANGED <<state, mug, subscribed, mugLock, h, clientLock, registry, closed>>
             /\ \A d \in ClientIds \ {c} : cl'[d] = cl[d]
             /\ IF disp' # disp
                   THEN /\ disp.active /\ disp.cur = c
                        /\ disp'.active /\ disp'.state = disp.state
                        /\ (disp'.todo \cup {disp'.cur}) \ {-1} = Pending \ {c}
                        /\ disp'.got = disp.got \cup {c}
                   ELSE TRUE]_vars

\* A message of a client being served failed to decode, which cancelled the
\* client, while a dispatch that has already handed its snapshot to the
\* notifier is in progress and the session with the mug exists.
C22_Witness ==
    /\ cl[1].pc = "serving" /\ cl[1].cancelled /\ cl[1].rd = "returned" /\ ~ctxDone
    /\ disp.active /\ 0 \in disp.got /\ cl[0].pc = "loop"
    /\ mug = "mug" /\ state.Connected

\* C23: once the reader of a client has returned (a decode failure, or the
\* peer closed or reset the connection), the client's context is cancelled
\* and handleClient leaves its main loop, whether or not a snapshot is
\* dispatched or a write fails afterwards.
C23_ReaderEndEndsSession ==
    \A c \in SocketIds :
        (cl[c].pc \in {"registered", "serving"} /\ cl[c].rd = "returned")
           ~> (cl[c].cancelled /\ cl[c].pc \in {"exited", "blocked"})

\* C24: no goroutine of the service panics; a connected callback for the
\* target device that does not get as far as a subscribed Mug returns with
\* mugLock released and leaves the snapshot and s.mug as they were.
C24_SetupFailureNotFatal ==
    /\ []alive
    /\ [][(h.pc = "setup" /\ h' # h /\ h'.pc # "setMug") =>
             /\ h'.pc = "idle" /\ mugLock' = "free"
             /\ state' = state /\ mug' = mug]_vars

\* C25: the step in which RegisterClient returns client c (for the notifier
\* or for a connection) finds no client registered under c, adds c and nothing
\* else to the registry, and returns a client on which Cancel has not been
\* called; every dispatchState that begins has the whole registry to reach; a
\* client leaves the registry only in the step of a dispatchState that is at
\* it, and only when its Cancel has been called or the parent context is
\* cancelled.
C25_RegisterClient ==
    [][/\ \A c \in ClientIds :
             /\ (cl[c].pc = "none" /\ cl'[c].pc # "none") =>
                   /\ c \notin registry /\ registry' = registry \cup {c}
                   /\ ~cl'[c].cancelled
             /\ (c \in registry /\ c \notin registry') =>
                   /\ disp.active /\ disp.cur = c /\ c \notin disp'.got
                   /\ (cl[c].cancelled \/ ctxDone)
       /\ (~disp.active /\ disp'.active) =>
             (disp'.todo \cup {disp'.cur}) \ {-1} = registry]_vars

\* The notifier and a socket client are registered under their two ids,
\* neither is cancelled, and a dispatch has both of them to reach.
C25_Witness ==
    /\ registry = {0, 1} /\ ~Done(0) /\ ~Done(1)
    /\ disp.active /\ Pending = {0, 1} /\ disp.got = {}

\* C26: when notifierClient receives a dispatched snapshot it calls
\* SendNotification exactly when the snapshot's State is StateStable and the
\* State of the snapshot it received before (none yet: the zero State) is not;
\* in a step in which it receives nothing it sends no notification.
C26_NotifyOnBecomingStable ==
    [][IF cl[0].pc = "loop" /\ 0 \in disp'.got /\ 0 \notin disp.got
          THEN cl'[0].notified <=>
                  (disp.state.State = StateStable /\ cl[0].last.State # StateStable)
          ELSE cl'[0].notified => cl[0].notified]_vars

\* The notifier has received the snapshot of the dispatch in progress, which
\* is Stable like the one it received before, and has sent no notification.
C26_Witness ==
    /\ cl[0].pc = "loop" /\ disp.active /\ 0 \in disp.got
    /\ disp.state.State = StateStable /\ cl[0].last.State = StateStable
    /\ ~cl[0].notified

\* C27: a callback starts on the snapshot only when no other callback is in
\* progress, and holds mugLock from its first write to the end of its
\* dispatch: the snapshot changes only under mugLock and never while a
\* dispatch is in progress, so the value a dispatch hands to a client is the
\* snapshot of the latest change at the moment the client receives it.
C27_AtomicCallbacks ==
    /\ [](disp.active => (mugLock = "held" /\ h.pc = "dispatching" /\ disp.state = state))
    /\ [][/\ state' # state =>
                (mugLock = "held" /\ mugLock' = "held" /\ ~disp.active /\ ~disp'.active)
          /\ (h.pc = "idle" /\ h'.pc # "idle") => (mugLock = "free" /\ ~disp.active)
          /\ (h.pc # "idle" /\ h'.pc # "idle") => (h'.addr = h.addr /\ mugLock' = "held")
          /\ \A c \in ClientIds :
                (c \in disp'.got /\ c \notin disp.got) =>
                   /\ disp.state = state /\ state' = state
                   /\ (~IsNotifier(c) /\ cl'[c].pc = "serving") => cl'[c].last = state
                   /\ (IsNotifier(c) /\ cl'[c].pc = "loop") =>
                         cl'[c].last.State = state.State]_vars

\* The snapshot of a disconnect that followed a refresh is being dispatched
\* under mugLock and a client being served has received it.
C27_Witness ==
    /\ mugLock = "held" /\ disp.active /\ 1 \in disp.got
    /\ cl[1].pc = "serving" /\ cl[1].last = state
    /\ ~state.Connected /\ state.Current # 0

\* C28: an event callback gets past its s.mug check (and so reads the device,
\* changes the snapshot or dispatches) only when it has taken mugLock while a
\* session exists; from then until it has returned the session stays and no
\* connectivity callback starts; a disconnect starts, and clears s.mug, only
\* when no event callback is in progress. With s.mug nil no step reads the
\* device for an event.
C28_LockWinnerDecides ==
    /\ [](h.kind = "event" => (mug # "nil" /\ mugLock = "held"))
    /\ [][/\ (h.kind # "event" /\ h'.kind = "event") =>
                (h.pc = "idle" /\ mugLock = "free" /\ mug # "nil" /\ state' = state)
          /\ h.kind = "event" =>
                /\ mug' = mug /\ h'.kind \notin {"connect", "disconnect"}
                /\ (mugLock' = "held" \/ h'.pc = "idle")
          /\ (h.kind # "disconnect" /\ h'.kind = "disconnect") =>
                (h.pc = "idle" /\ mugLock = "free" /\ ~disp.active /\ mug' = mug)
          /\ (mug # "nil" /\ mug' = "nil") => h.kind = "disconnect"
          /\ (mug = "nil" /\ h.pc = "idle" /\ h' # h) => h'.kind \in {"connect", "disconnect"}]_vars

\* A disconnect has been processed and has released mugLock while the
\* subscription of the session it cleared can still deliver events.
C28_Witness ==
    /\ subscribed /\ mug = "nil" /\ mugLock = "free" /\ h.pc = "idle"
    /\ ~state.Connected /\ state.Current # 0

\* C29: clientLock is not held while dispatchState waits for a client that
\* neither receives nor is cancelled, so that RegisterClient can take it.
C29_LockNotHeldAcrossHandoff ==
    \A c \in ClientIds :
        (disp.active /\ disp.cur = c /\ ~CanReceive(c) /\ ~Done(c)) => clientLock = "free"

\* C30: a handleClient that leaves (after its first write or from its main
\* loop, whatever the reason) has gone through its teardown: Cancel has been
\* called on its client, its reader no longer reads the socket, and its
\* channel is received from until it is closed; a dispatchState that is at
\* such a client has a case of its select ready.
Departed(c) == cl[c].pc \in {"exited", "blocked"}

C30_TeardownOnEveryExit ==
    /\ [](\A c \in SocketIds :
             Departed(c) =>
                /\ cl[c].cancelled /\ cl[c].rd \in {"returned", "sending"}
                /\ (c \notin closed => CanReceive(c))
                /\ (disp.active /\ disp.cur = c) => (Done(c) \/ CanReceive(c)))
    /\ [][\A c \in SocketIds :
             /\ (cl[c].pc \in {"registered", "serving"} /\ cl'[c].pc # cl[c].pc) =>
                   (cl'[c].pc = "serving" \/ cl'[c].pc \in {"exited", "blocked"})
             /\ Departed(c) => cl'[c].cancelled]_vars

\* A handleClient has gone through its teardown and waits for its reader; a
\* dispatch, begun before the service is shut down, is at its client.
C30_Witness ==
    /\ cl[1].pc = "blocked" /\ ~ctxDone
    /\ disp.active /\ disp.cur = 1 /\ 1 \notin closed

\* C39: in the Events iterator the notification callback is unregistered
\* before the events channel is closed, so that no notification arriving while
\* the iteration ends sends on a closed channel: the channel is never closed
\* while the callback is registered, and no callback panics.
C39_UnregisteredBeforeClose ==
    /\ alive
    /\ iter.closed => ~iter.registered

\* C40: for every Color c, decoding the bytes MarshalBinary produced for c
\* succeeds and yields c again.
C40_ColorRoundTrip ==
    color.pc = "decoded" => (~color.err /\ color.out = color.c)

\* C36: the s.disconnect() of Run's return, when there is a session, stops
\* the event notifications first and closes the transport connection after
\* that, both under mugLock; when there is no session it does neither, leaves
\* the subscription as it is and fails nothing; the close is reached in no
\* other way.
C36_DisconnectOrder ==
    /\ [](run = "close" => (mug # "nil" /\ ~subscribed /\ mugLock = "held"))
    /\ [][/\ (run = "disconnect" /\ run' # run) =>
                IF mug = "nil"
                   THEN /\ run' = "returned" /\ subscribed' = subscribed
                        /\ mugLock' = "free" /\ alive'
                   ELSE run' = "close" /\ ~subscribed'
          /\ (run # "close" /\ run' = "close") => (run = "disconnect" /\ mug # "nil")
          /\ (run = "close" /\ run' # run) =>
                (run' = "returned" /\ ~subscribed' /\ mug' = mug /\ alive')]_vars

\* Shutdown with a connected, subscribed session: the notifications are
\* stopped and the close of the connection is next.
C36_Witness ==
    /\ run = "close" /\ ctxDone
    /\ mug = "mug" /\ state.Connected /\ ~subscribed

\* C31: once handleClient has left its main loop, the reader returns and
\* handleClient returns; the reader does not stay at messageChan <- message
\* for a message nobody receives.
C31_ReaderTerminates ==
    \A c \in SocketIds :
        Departed(c) ~> (cl[c].pc = "exited" /\ cl[c].rd = "returned")

\* C32: what a serving client has written last changes only in a step in
\* which it receives the snapshot of the dispatchState in progress, and
\* becomes that snapshot: no line it writes is the zero State received from
\* its closed channel.
C32_WritesOnlyDispatched ==
    [][\A c \in SocketIds :
          (cl[c].pc = "serving" /\ cl'[c].pc = "serving" /\ cl'[c].last # cl[c].last)
             => (c \in disp'.got \ disp.got /\ cl'[c].last = disp.state)]_vars

\* C33: no state change is lost to a client: whenever no callback is running
\* and no dispatchState is in progress, every client that is being served and
\* whose context is not cancelled has been written, last, the service's
\* current snapshot (a receive from the channel and the write of what was
\* received are one step of the client).
C33_NoUpdateLost ==
    (h.pc = "idle" /\ ~disp.active) =>
        \A c \in SocketIds :
            (cl[c].pc = "serving" /\ ~Done(c)) => (c \in registry /\ cl[c].last = state)

\* After a session was set up, refreshed and lost again, with no callback
\* running, a client that is being served has been written the current
\* snapshot.
C33_Witness ==
    /\ h.pc = "idle" /\ ~disp.active
    /\ cl[1].pc = "serving" /\ ~Done(1) /\ cl[1].last = state
    /\ ~state.Connected /\ state.Current # 0 /\ mug = "nil"

\* C34: a client whose channel is closed is not in s.clients and is not among
\* the clients a dispatchState in progress has still to reach, so that no
\* snapshot is sent on a closed channel and no channel is closed twice; a
\* channel is closed only in the step of the dispatchState that is at its
\* client and deletes it from s.clients, under clientLock; a closed channel
\* stays closed, its client is not registered again and receives no snapshot
\* from a dispatch.
C34_ClosedOnceByRemoval ==
    /\ [](registry \cap closed = {})
    /\ [](disp.active => Pending \cap closed = {})
    /\ [][\A c \in ClientIds :
             /\ (c \notin closed /\ c \in closed') =>
                   /\ disp.active /\ disp.cur = c
                   /\ c \in registry /\ c \notin registry'
                   /\ clientLock = "held" /\ clientLock' = "held"
             /\ c \in closed =>
                   (c \in closed' /\ c \notin registry' /\ c \notin disp'.got \ disp.got)]_vars

\* The socket client's channel is closed and the client is deleted; the
\* dispatchState in progress has delivered to the notifier and has nothing
\* left to reach.
C34_Witness ==
    /\ 1 \in closed /\ 1 \notin registry
    /\ disp.active /\ 0 \in disp.got /\ Pending = {}

\* C35: a notifierClient that has returned (dbus.SessionBus() failed) has not
\* left its client registered with its context uncancelled, and no
\* dispatchState waits on the client of a notifierClient that has returned.
C35_FailedNotifierLeavesNoClient ==
    /\ (cl[0].pc = "returned" /\ 0 \in registry) => Done(0)
    /\ (disp.active /\ disp.cur = 0 /\ cl[0].pc = "returned") => Done(0)

\* C37: clientLock is held only inside a dispatchState called by a handler
\* that holds mugLock; it is taken while mugLock is held and released no later
\* than mugLock; mugLock is never taken while clientLock is held.
\* (RegisterClient, which takes clientLock alone and nothing else inside it,
\* is a single step.)
C37_LockOrder ==
    /\ [](clientLock = "held" => (mugLock = "held" /\ disp.active))
    /\ [][/\ (clientLock = "free" /\ clientLock' = "held") =>
                (mugLock = "held" /\ mugLock' = "held")
          /\ (mugLock = "free" /\ mugLock' = "held") =>
                (clientLock = "free" /\ clientLock' = "free")
          /\ (mugLock = "held" /\ mugLock' = "free") => clientLock' = "free"]_vars

\* A dispatchState called by a handler of the subscribed session holds
\* clientLock at the socket client, under mugLock.
C37_Witness ==
    /\ clientLock = "held" /\ mugLock = "held"
    /\ disp.active /\ disp.cur = 1 /\ subscribed

====
